---- MODULE Spec2Model ----
(***************************************************************************)
(* Model of diffwhisperer/analyzer.py: class DiffAnalyzer.                 *)
(*                                                                         *)
(* Python strings are sequences of one-character strings, so that strip,   *)
(* split, join, startswith and str() are computed character by character.  *)
(* A dict is a sequence of <<key, value>> pairs in insertion order.        *)
(***************************************************************************)
EXTENDS Integers, Sequences, FiniteSets, TLC

VARIABLES
  pc,               \* position of the caller in __init__ / generate_commit_message
  repo_ok,          \* environment: repo_path is a git repository
  has_head,         \* environment: the repository has a HEAD commit
  status,           \* environment: per tracked file, how index/worktree differ
  api_key,          \* constructor argument
  model_name,       \* constructor argument
  backend_models,   \* environment: the backend's listing of model names
  list_ok,          \* environment: genai.list_models() answers
  configured,       \* genai.configure was called
  model,            \* self.model
  staged_changes,   \* local of generate_commit_message (dict)
  changed_files,    \* local of generate_commit_message / argument of _determine_scope
  changes_text,     \* local of generate_commit_message
  prompt,           \* local of generate_commit_message
  response,         \* what generate_content returned
  result,           \* the returned string
  raised,           \* the exception that left the call, if any
  steps,            \* history: the pipeline steps executed so far
  scope             \* result of _determine_scope

vars == <<pc, repo_ok, has_head, status, api_key, model_name, backend_models,
          list_ok, configured, model, staged_changes, changed_files,
          changes_text, prompt, response, result, raised, steps, scope>>

NL == "\n"

(***************************************************************************)
(* Python built-ins used by the code                                       *)
(***************************************************************************)

\* str.isspace for one character
IsSpace(c) == c \in {" ", NL, "\t", "\r"}

RECURSIVE lstrip(_)
lstrip(s) ==
  IF s = <<>> THEN s
  ELSE IF IsSpace(Head(s)) THEN lstrip(Tail(s)) ELSE s

RECURSIVE rstrip(_)
rstrip(s) ==
  IF s = <<>> THEN s
  ELSE IF IsSpace(s[Len(s)]) THEN rstrip(SubSeq(s, 1, Len(s) - 1)) ELSE s

\* str.strip()
strip(s) == rstrip(lstrip(s))

\* str.find(sep, i): the first index >= i where sep occurs, 0 when none
RECURSIVE find(_, _, _)
find(s, sep, i) ==
  IF i + Len(sep) - 1 > Len(s) THEN 0
  ELSE IF SubSeq(s, i, i + Len(sep) - 1) = sep THEN i
  ELSE find(s, sep, i + 1)

\* str.split(sep, maxsplit); maxsplit = -1 is "no limit"
RECURSIVE split(_, _, _)
split(s, sep, maxsplit) ==
  LET i == find(s, sep, 1)
  IN IF maxsplit = 0 \/ i = 0 THEN <<s>>
     ELSE <<SubSeq(s, 1, i - 1)>>
          \o split(SubSeq(s, i + Len(sep), Len(s)), sep, maxsplit - 1)

\* sep.join(parts)
RECURSIVE join(_, _)
join(sep, parts) ==
  IF parts = <<>> THEN <<>>
  ELSE IF Len(parts) = 1 THEN parts[1]
  ELSE parts[1] \o sep \o join(sep, Tail(parts))

\* str.startswith(c) for a one-character prefix
startswith(l, c) == Len(l) >= 1 /\ l[1] = c

Digits == <<"0", "1", "2", "3", "4", "5", "6", "7", "8", "9">>

\* str(n) for a non-negative int
RECURSIVE str(_)
str(n) ==
  IF n < 10 THEN <<Digits[n + 1]>>
  ELSE str(n \div 10) \o <<Digits[(n % 10) + 1]>>

\* xs[:n]
Take(xs, n) == SubSeq(xs, 1, IF Len(xs) < n THEN Len(xs) ELSE n)

\* pathlib.Path(f).parts on POSIX: the segments between slashes, empty and
\* "." segments dropped, preceded by the root of an absolute path ("//" for
\* exactly two leading slashes, "/" otherwise)
IsSegment(p) == p # <<>> /\ p # <<".">>

PathRoot(f) ==
  IF ~startswith(f, "/") THEN <<>>
  ELSE IF Len(f) >= 2 /\ f[2] = "/" /\ ~(Len(f) >= 3 /\ f[3] = "/")
       THEN <<(<<"/", "/">>)>>
       ELSE <<(<<"/">>)>>

PathParts(f) == PathRoot(f) \o SelectSeq(split(f, <<"/">>, -1), IsSegment)

\* pathlib.Path(f).name: the last segment, "" for a bare root
PathName(f) ==
  LET segs == SelectSeq(split(f, <<"/">>, -1), IsSegment)
  IN IF segs = <<>> THEN <<>> ELSE segs[Len(segs)]

\* dict: d[k] = v keeps the position of an existing key
DictHas(d, k) == \E i \in 1..Len(d) : d[i][1] = k

DictSet(d, k, v) ==
  IF DictHas(d, k)
  THEN [i \in 1..Len(d) |-> IF d[i][1] = k THEN <<k, v>> ELSE d[i]]
  ELSE Append(d, <<k, v>>)

\* list(d.keys())
DictKeys(d) == [i \in 1..Len(d) |-> d[i][1]]

(***************************************************************************)
(* String literals of the code                                             *)
(***************************************************************************)

NoStagedChanges ==
  <<"N","o"," ","s","t","a","g","e","d"," ","c","h","a","n","g","e","s"," ",
    "f","o","u","n","d">>

ErrorPrefix ==
  <<"E","r","r","o","r"," ","g","e","n","e","r","a","t","i","n","g"," ","c",
    "o","m","m","i","t"," ","m","e","s","s","a","g","e",":"," ">>

FilePrefix ==
  <<"F","i","l","e",":"," ">>

AddedLit ==
  <<" ","a","d","d","e","d",","," ">>

RemovedLit ==
  <<" ","r","e","m","o","v","e","d",")">>

ChangesLabel ==
  <<NL,"C","h","a","n","g","e","s",":",NL>>

InvalidModelLit ==
  <<"I","n","v","a","l","i","d"," ","m","o","d","e","l"," ","n","a","m","e",
    ":"," ">>

AvailableLit ==
  <<"."," ","A","v","a","i","l","a","b","l","e"," ","m","o","d","e","l","s",
    ":"," ">>

Misc ==
  <<"m","i","s","c">>

PromptHead ==
  <<"A","n","a","l","y","z","e"," ","t","h","e","s","e"," ","c","h","a","n",
    "g","e","s"," ","a","n","d"," ","g","e","n","e","r","a","t","e"," ","a",
    " ","d","e","t","a","i","l","e","d"," ","g","i","t"," ","c","o","m","m",
    "i","t"," ","m","e","s","s","a","g","e",":",NL>>

PromptTail ==
  <<NL,NL,"R","e","q","u","i","r","e","m","e","n","t","s"," ","f","o","r",
    " ","t","h","e"," ","c","o","m","m","i","t"," ","m","e","s","s","a","g",
    "e",":",NL,"1","."," ","S","t","a","r","t"," ","w","i","t","h"," ","a",
    " ","c","l","e","a","r",","," ","c","o","n","c","i","s","e"," ","t","i",
    "t","l","e"," ","l","i","n","e"," ","(","5","0","-","7","2"," ","c","h",
    "a","r","s",")"," ","t","h","a","t"," ","s","u","m","m","a","r","i","z",
    "e","s"," ","W","H","A","T"," ","c","h","a","n","g","e","d",NL,"2",".",
    " ","L","e","a","v","e"," ","o","n","e"," ","b","l","a","n","k"," ","l",
    "i","n","e"," ","a","f","t","e","r"," ","t","h","e"," ","t","i","t","l",
    "e",NL,"3","."," ","F","o","l","l","o","w"," ","w","i","t","h"," ","2",
    "-","4"," ","p","a","r","a","g","r","a","p","h","s"," ","e","x","p","l",
    "a","i","n","i","n","g",":",NL," "," "," ","-"," ","W","H","Y"," ","t",
    "h","e","s","e"," ","c","h","a","n","g","e","s"," ","w","e","r","e"," ",
    "n","e","e","d","e","d",NL," "," "," ","-"," ","H","O","W"," ","t","h",
    "e"," ","c","h","a","n","g","e","s"," ","a","d","d","r","e","s","s"," ",
    "t","h","e"," ","n","e","e","d",NL," "," "," ","-"," ","A","n","y"," ",
    "i","m","p","o","r","t","a","n","t"," ","t","e","c","h","n","i","c","a",
    "l"," ","d","e","t","a","i","l","s"," ","o","r"," ","t","r","a","d","e",
    "-","o","f","f","s",NL,"4","."," ","U","s","e"," ","p","r","e","s","e",
    "n","t"," ","t","e","n","s","e"," ","a","n","d"," ","i","m","p","e","r",
    "a","t","i","v","e"," ","m","o","o","d",NL,"5","."," ","I","f"," ","r",
    "e","l","e","v","a","n","t",","," ","i","n","c","l","u","d","e"," ","a",
    "t"," ","e","n","d"," ","o","f"," ","b","o","d","y",":",NL," "," "," ",
    "-"," ","B","r","e","a","k","i","n","g"," ","c","h","a","n","g","e","s",
    NL," "," "," ","-"," ","R","e","l","a","t","e","d"," ","i","s","s","u",
    "e","s",NL," "," "," ","-"," ","M","i","g","r","a","t","i","o","n"," ",
    "n","o","t","e","s",NL," "," "," ","-"," ","C","r","e","d","i","t"," ",
    "t","o"," ","c","o","n","t","r","i","b","u","t","o","r","s",NL,NL,"E",
    "x","a","m","p","l","e"," ","f","o","r","m","a","t",":",NL,"T","i","t",
    "l","e"," ","s","u","m","m","a","r","i","z","i","n","g"," ","t","h","e",
    " ","c","h","a","n","g","e",NL,NL,"E","x","p","l","a","i","n"," ","w",
    "h","y"," ","t","h","i","s"," ","c","h","a","n","g","e"," ","w","a","s",
    " ","n","e","e","d","e","d"," ","a","n","d"," ","w","h","a","t"," ","p",
    "r","o","b","l","e","m"," ","i","t"," ","s","o","l","v","e","s",".",NL,
    "P","r","o","v","i","d","e"," ","c","o","n","t","e","x","t"," ","a","b",
    "o","u","t"," ","t","h","e"," ","a","p","p","r","o","a","c","h"," ","t",
    "a","k","e","n"," ","a","n","d"," ","a","n","y"," ","i","m","p","o","r",
    "t","a","n","t",NL,"i","m","p","l","e","m","e","n","t","a","t","i","o",
    "n"," ","d","e","t","a","i","l","s"," ","t","h","a","t"," ","f","u","t",
    "u","r","e"," ","m","a","i","n","t","a","i","n","e","r","s"," ","s","h",
    "o","u","l","d"," ","k","n","o","w",".",NL,NL,"I","n","c","l","u","d",
    "e"," ","a","n","y"," ","b","r","e","a","k","i","n","g"," ","c","h","a",
    "n","g","e","s",","," ","m","i","g","r","a","t","i","o","n"," ","n","o",
    "t","e","s",","," ","o","r"," ","r","e","l","a","t","e","d",NL,"i","s",
    "s","u","e","s"," ","a","t"," ","t","h","e"," ","e","n","d"," ","a","s",
    " ","t","r","a","i","l","e","r","s",".",NL,NL,"G","e","n","e","r","a",
    "t","e"," ","a"," ","c","o","m","m","i","t"," ","m","e","s","s","a","g",
    "e"," ","f","o","l","l","o","w","i","n","g"," ","A","L","L"," ","t","h",
    "e"," ","a","b","o","v","e"," ","r","u","l","e","s",".">>

(***************************************************************************)
(* Pure methods of DiffAnalyzer                                            *)
(***************************************************************************)

\* dirs of _determine_scope: one label per changed file
ScopeDirs(files) ==
  [i \in 1..Len(files) |->
     IF Len(PathParts(files[i])) > 1 THEN PathParts(files[i])[1] ELSE Misc]

\* Counter(dirs)[d]
Count(dirs, d) == Cardinality({i \in 1..Len(dirs) : dirs[i] = d})

\* the keys of Counter(dirs): the labels in order of first occurrence
RECURSIVE CounterKeys(_, _)
CounterKeys(dirs, seen) ==
  IF dirs = <<>> THEN seen
  ELSE IF \E i \in 1..Len(seen) : seen[i] = Head(dirs)
       THEN CounterKeys(Tail(dirs), seen)
       ELSE CounterKeys(Tail(dirs), Append(seen, Head(dirs)))

\* max() that keeps the last item of maximal count
RECURSIVE MaxByCount_lastWins(_, _, _)
MaxByCount_lastWins(keys, dirs, best) ==
  IF keys = <<>> THEN best
  ELSE IF Count(dirs, Head(keys)) >= Count(dirs, best)
       THEN MaxByCount_lastWins(Tail(keys), dirs, Head(keys))
       ELSE MaxByCount_lastWins(Tail(keys), dirs, best)

\* max(items, key=count): the first item whose count no later item exceeds
RECURSIVE MaxByCount(_, _, _)
MaxByCount(keys, dirs, best) ==
  IF keys = <<>> THEN best
  ELSE IF Count(dirs, Head(keys)) > Count(dirs, best)
       THEN MaxByCount(Tail(keys), dirs, Head(keys))
       ELSE MaxByCount(Tail(keys), dirs, best)

\* Counter(dirs).most_common(1)[0][0]
MostCommon(dirs) ==
  LET keys == CounterKeys(dirs, <<>>)
  IN MaxByCount(Tail(keys), dirs, Head(keys))

_determine_scope(files) ==
  IF files = <<>> THEN Misc
  ELSE MostCommon(ScopeDirs(files))

IsAdded(l) == startswith(l, "+")
IsRemoved(l) == startswith(l, "-")
IsChange(l) == IsAdded(l) \/ IsRemoved(l)

\* the loop body with the sample cut after two lines
FileSummary_twoSamples(file_path, diff) ==
  LET filename == PathName(file_path)
      lines    == split(diff, <<NL>>, -1)
      added    == Len(SelectSeq(lines, IsAdded))
      removed  == Len(SelectSeq(lines, IsRemoved))
      header   == FilePrefix \o filename
                  \o (IF added # 0 \/ removed # 0
                      THEN <<" ", "(">> \o str(added) \o AddedLit
                           \o str(removed) \o RemovedLit
                      ELSE <<>>)
      change_lines == Take(SelectSeq(lines, IsChange), 2)
  IN header \o (IF change_lines # <<>>
                THEN ChangesLabel \o join(<<NL>>, change_lines)
                ELSE <<>>)

\* the body of the loop of _prepare_diff_summary for one dict item
FileSummary(file_path, diff) ==
  LET filename == PathName(file_path)
      lines    == split(diff, <<NL>>, -1)
      added    == Len(SelectSeq(lines, IsAdded))
      removed  == Len(SelectSeq(lines, IsRemoved))
      header   == FilePrefix \o filename
                  \o (IF added # 0 \/ removed # 0
                      THEN <<" ", "(">> \o str(added) \o AddedLit
                           \o str(removed) \o RemovedLit
                      ELSE <<>>)
      change_lines == Take(SelectSeq(lines, IsChange), 3)
  IN header \o (IF change_lines # <<>>
                THEN ChangesLabel \o join(<<NL>>, change_lines)
                ELSE <<>>)

_prepare_diff_summary(changes) ==
  join(<<NL, NL>>, [i \in 1..Len(changes) |->
                      FileSummary(changes[i][1], changes[i][2])])

\* the formatter with the title taken as split off, not stripped
format_message_rawTitle(text) ==
  LET message == strip(text)
      parts   == split(message, <<NL, NL>>, 1)
  IN IF Len(parts) = 1 THEN parts[1]
     ELSE parts[1] \o <<NL, NL>> \o strip(parts[2])

\* the formatter splitting on every blank line and keeping two parts
format_message_splitAll(text) ==
  LET message == strip(text)
      parts   == split(message, <<NL, NL>>, -1)
  IN IF Len(parts) = 1 THEN parts[1]
     ELSE strip(parts[1]) \o <<NL, NL>> \o strip(parts[2])

\* lines 148-159 of generate_commit_message: strip, split once on the blank
\* line, strip both parts and join them again
format_message(text) ==
  LET message == strip(text)
      parts   == split(message, <<NL, NL>>, 1)
  IN IF Len(parts) = 1 THEN parts[1]
     ELSE strip(parts[1]) \o <<NL, NL>> \o strip(parts[2])

build_prompt(text) == PromptHead \o text \o PromptTail

(***************************************************************************)
(* Environment: the repository and the generation backend                  *)
(***************************************************************************)

\* the tracked files of the modelled repository, in git's path order
TrackedFiles ==
  << <<"r","e","a","d","m","e">>, <<"s","r","c","/","a",".","p","y">> >>

\* clean: HEAD = index = worktree;  staged: index differs from HEAD;
\* unstaged: worktree differs from index;  both: staged, then edited again
Statuses == {"clean", "staged", "unstaged", "both"}

\* the text `git diff --cached <path>` prints for a file whose index differs
\* from HEAD
CachedDiffText ==
  << <<"+","h","i">>,
     <<"-","-","-"," ","a",NL,"+","+","+"," ","b",NL,"@","@",NL,
       "-","x",NL,"+","y",NL," ","z",NL,"+","w">> >>

ModelNames == { <<"g","-","2">>, <<"g","-","p","r","o">>, <<"g","p","t">> }

\* genai.list_models(): the names the backend lists, in its order
Listings ==
  { <<>>,
    << <<"g","-","2">> >>,
    << <<"g","-","2">>, <<"g","-","p","r","o">> >>,
    << <<"g","-","p","r","o">>, <<"g","-","2">> >> }

\* str(e) of the failures of the backend
Failures == { <<"4","0","4">>, <<"q","u","o","t","a">>, <<>> }

\* response.text of the answers of the backend
Answers ==
  { <<"T">>,
    <<" ","T",NL>>,
    <<"T",NL,NL,"B">>,
    <<NL,"T"," ",NL,NL," ","B",NL,NL,"C"," ">>,
    <<" ",NL>>,
    <<>> }

NoResponse == [kind |-> "none", text |-> <<>>, err |-> <<>>]
NoError    == [type |-> "none", text |-> <<>>]

\* what self.model.generate_content / response.text can do: raise, answer
\* with a text, or answer with a response whose .text raises
BackendOutcomes ==
  {[kind |-> "fail", text |-> <<>>, err |-> d] : d \in Failures}
  \cup {[kind |-> "text", text |-> t, err |-> <<>>] : t \in Answers}
  \cup {[kind |-> "blocked", text |-> <<>>, err |-> d] : d \in Failures}

\* the backend accepts the names it lists
Recognized(name, listing) == \E i \in 1..Len(listing) : listing[i] = name

(***************************************************************************)
(* get_staged_changes                                                      *)
(***************************************************************************)

\* self.repo.index.diff("HEAD"): one item per file whose index differs from HEAD
IndexDiffHead(st) ==
  SelectSeq([i \in 1..Len(TrackedFiles) |-> [a_path |-> TrackedFiles[i], file |-> i]],
            LAMBDA d : st[d.file] \in {"staged", "both"})

\* self.repo.index.diff(None): one item per file whose worktree differs from
\* the index
IndexDiffWorktree(st) ==
  SelectSeq([i \in 1..Len(TrackedFiles) |-> [a_path |-> TrackedFiles[i], file |-> i]],
            LAMBDA d : st[d.file] \in {"unstaged", "both"})

\* self.repo.git.diff("--cached", path)
GitDiffCached(st, item) ==
  IF st[item.file] \in {"staged", "both"} THEN CachedDiffText[item.file] ELSE <<>>

\* the loop over diff of get_staged_changes
RECURSIVE StagedFiles(_, _, _)
StagedFiles(st, diff, staged_files) ==
  IF diff = <<>> THEN staged_files
  ELSE StagedFiles(st, Tail(diff),
         IF Head(diff).a_path # <<>>
         THEN DictSet(staged_files, Head(diff).a_path, GitDiffCached(st, Head(diff)))
         ELSE staged_files)

get_staged_changes(st) ==
  StagedFiles(st, IndexDiffHead(st) \o IndexDiffWorktree(st), <<>>)

\* f"Error generating commit message: {str(e)}"
error_message(d) == ErrorPrefix \o d

\* the message without the listing
invalid_model_message_noListing(name, listing) ==
  InvalidModelLit \o name \o AvailableLit

\* f"Invalid model name: {model_name}. Available models: {', '.join(...)}"
invalid_model_message(name, listing) ==
  InvalidModelLit \o name \o AvailableLit \o join(<<",", " ">>, listing)

(***************************************************************************)
(* Actions                                                                 *)
(***************************************************************************)

envvars == <<repo_ok, has_head, status, api_key, model_name, backend_models, list_ok>>

\* DiffAnalyzer.__init__
Construct ==
  /\ pc = "new"
  /\ IF ~repo_ok
     THEN /\ raised' = [type |-> "InvalidGitRepositoryError", text |-> <<>>]
          /\ pc' = "init_failed"
          /\ UNCHANGED <<configured, model>>
     ELSE /\ configured' = (configured \/ api_key # <<>>)
          /\ IF Recognized(model_name, backend_models)
             THEN /\ model' = model_name
                  /\ pc' = "ready"
                  /\ UNCHANGED raised
             ELSE /\ raised' = IF list_ok
                               THEN [type |-> "ValueError",
                                     text |-> invalid_model_message(model_name, backend_models)]
                               ELSE [type |-> "ListModelsError", text |-> <<>>]
                  /\ pc' = "init_failed"
                  /\ UNCHANGED model
  /\ UNCHANGED <<envvars, staged_changes, changed_files, changes_text, prompt,
                 response, result, steps, scope>>

\* generate_commit_message, line 97: staged_changes = self.get_staged_changes()
Collect ==
  /\ pc = "ready"
  /\ steps' = Append(steps, "collect")
  /\ IF has_head
     THEN /\ staged_changes' = get_staged_changes(status)
          /\ pc' = "collected"
          /\ UNCHANGED raised
     ELSE /\ raised' = [type |-> "BadName", text |-> <<>>]
          /\ pc' = "raised"
          /\ UNCHANGED staged_changes
  /\ UNCHANGED <<envvars, configured, model, changed_files, changes_text,
                 prompt, response, result, scope>>

\* lines 99-100
NoChanges ==
  /\ pc = "collected"
  /\ staged_changes = <<>>
  /\ result' = NoStagedChanges
  /\ pc' = "returned"
  /\ UNCHANGED <<envvars, configured, model, staged_changes, changed_files,
                 changes_text, prompt, response, raised, steps, scope>>

\* the summarize step without the check for an empty mapping before it
Summarize_noEmptyCheck ==
  /\ pc = "collected"
  /\ changed_files' = DictKeys(staged_changes)
  /\ changes_text' = _prepare_diff_summary(staged_changes)
  /\ steps' = Append(steps, "summarize")
  /\ pc' = "summarized"
  /\ UNCHANGED <<envvars, configured, model, staged_changes, prompt, response,
                 result, raised, scope>>

\* lines 103-106
Summarize ==
  /\ pc = "collected"
  /\ staged_changes # <<>>
  /\ changed_files' = DictKeys(staged_changes)
  /\ changes_text' = _prepare_diff_summary(staged_changes)
  /\ steps' = Append(steps, "summarize")
  /\ pc' = "summarized"
  /\ UNCHANGED <<envvars, configured, model, staged_changes, prompt, response,
                 result, raised, scope>>

\* lines 108-135
BuildPrompt ==
  /\ pc = "summarized"
  /\ prompt' = build_prompt(changes_text)
  /\ steps' = Append(steps, "prompt")
  /\ pc' = "prompted"
  /\ UNCHANGED <<envvars, configured, model, staged_changes, changed_files,
                 changes_text, response, result, raised, scope>>

\* the backend call outside the try block: its failure leaves the call
CallBackend_noTry ==
  /\ pc = "prompted"
  /\ \E o \in BackendOutcomes :
       /\ response' = o
       /\ IF o.kind = "fail"
          THEN raised' = [type |-> "BackendError", text |-> o.err] /\ pc' = "raised"
          ELSE UNCHANGED raised /\ pc' = "responded"
  /\ steps' = Append(steps, "backend")
  /\ UNCHANGED <<envvars, configured, model, staged_changes, changed_files,
                 changes_text, prompt, result, scope>>

\* the backend call tried again after a failure
CallBackend_retry ==
  /\ pc = "prompted"
  /\ \E o \in BackendOutcomes :
       /\ response' = o
       /\ IF o.kind = "fail"
          THEN UNCHANGED result /\ pc' = "prompted"
          ELSE UNCHANGED result /\ pc' = "responded"
  /\ steps' = Append(steps, "backend")
  /\ UNCHANGED <<envvars, configured, model, staged_changes, changed_files,
                 changes_text, prompt, raised, scope>>

\* lines 138-146, and the except clause for a failing call
CallBackend ==
  /\ pc = "prompted"
  /\ \E o \in BackendOutcomes :
       /\ response' = o
       /\ IF o.kind = "fail"
          THEN result' = error_message(o.err) /\ pc' = "returned"
          ELSE UNCHANGED result /\ pc' = "responded"
  /\ steps' = Append(steps, "backend")
  /\ UNCHANGED <<envvars, configured, model, staged_changes, changed_files,
                 changes_text, prompt, raised, scope>>

\* the formatting outside the try block: a failing response.text leaves the call
Format_noTry ==
  /\ pc = "responded"
  /\ IF response.kind = "blocked"
     THEN /\ raised' = [type |-> "ValueError", text |-> response.err]
          /\ pc' = "raised"
          /\ UNCHANGED result
     ELSE /\ result' = format_message(response.text)
          /\ pc' = "returned"
          /\ UNCHANGED raised
  /\ steps' = Append(steps, "format")
  /\ UNCHANGED <<envvars, configured, model, staged_changes, changed_files,
                 changes_text, prompt, response, scope>>

\* lines 148-159, and the except clause for a failing response.text
Format ==
  /\ pc = "responded"
  /\ result' = IF response.kind = "blocked"
               THEN error_message(response.err)
               ELSE format_message(response.text)
  /\ steps' = Append(steps, "format")
  /\ pc' = "returned"
  /\ UNCHANGED <<envvars, configured, model, staged_changes, changed_files,
                 changes_text, prompt, response, raised, scope>>

Init ==
  /\ pc = "new"
  /\ repo_ok \in BOOLEAN
  /\ has_head \in BOOLEAN
  /\ status \in [1..Len(TrackedFiles) -> Statuses]
  /\ api_key \in { <<>>, <<"k">> }
  /\ model_name \in ModelNames
  /\ backend_models \in Listings
  /\ list_ok \in BOOLEAN
  /\ configured = FALSE
  /\ model = <<>>
  /\ staged_changes = <<>>
  /\ changed_files = <<>>
  /\ changes_text = <<>>
  /\ prompt = <<>>
  /\ response = NoResponse
  /\ result = <<>>
  /\ raised = NoError
  /\ steps = <<>>
  /\ scope = <<>>

Next ==
  \/ Construct
  \/ Collect
  \/ NoChanges
  \/ Summarize
  \/ BuildPrompt
  \/ CallBackend
  \/ Format

Spec == Init /\ [][Next]_vars

(***************************************************************************)
(* Specifications of the pure steps: the inputs are drawn from bounded     *)
(* sets and the step of the pipeline that computes the function is taken.  *)
(***************************************************************************)

MaxRespLen == 7
MaxDiffLines == 5
MaxPaths == 3

\* a call that has reached the backend: every file of the repository staged
ScenarioStatus == [i \in 1..Len(TrackedFiles) |-> "staged"]

ScenarioModel == <<"g","-","2">>

ScenarioEnv ==
  /\ repo_ok = TRUE
  /\ has_head = TRUE
  /\ status = ScenarioStatus
  /\ api_key = <<>>
  /\ model_name = ScenarioModel
  /\ backend_models = <<ScenarioModel>>
  /\ list_ok = TRUE
  /\ configured = FALSE
  /\ model = ScenarioModel
  /\ raised = NoError
  /\ scope = <<>>

\* response texts over a letter, a blank and a newline
RespChars == {"T", " ", NL}

Texts == UNION {[1..k -> RespChars] : k \in 0..MaxRespLen}

InitFormat ==
  /\ ScenarioEnv
  /\ pc = "responded"
  /\ staged_changes = get_staged_changes(ScenarioStatus)
  /\ changed_files = DictKeys(staged_changes)
  /\ changes_text = _prepare_diff_summary(staged_changes)
  /\ prompt = build_prompt(changes_text)
  /\ response \in {[kind |-> "text", text |-> t, err |-> <<>>] : t \in Texts}
  /\ result = <<>>
  /\ steps = <<"collect", "summarize", "prompt", "backend">>

NextFormat == Format

SpecFormat == InitFormat /\ [][NextFormat]_vars

\* lines of a diff: empty, added, removed, context, and a context line that
\* has its sign in the second column
DiffLines == { <<>>, <<"+","a">>, <<"-","b">>, <<"x">>, <<" ","+">> }

DiffTexts ==
  {join(<<NL>>, ls) : ls \in UNION {[1..k -> DiffLines] : k \in 1..MaxDiffLines}}

SecondFile == << <<"R","E","A","D","M","E">>, <<"+","b">> >>

InitSummary ==
  /\ ScenarioEnv
  /\ pc = "collected"
  /\ \E d \in DiffTexts :
       staged_changes \in { << <<TrackedFiles[2], d>> >>,
                            << <<TrackedFiles[2], d>>, SecondFile >> }
  /\ changed_files = <<>>
  /\ changes_text = <<>>
  /\ prompt = <<>>
  /\ response = NoResponse
  /\ result = <<>>
  /\ steps = <<"collect">>

NextSummary == Summarize

SpecSummary == InitSummary /\ [][NextSummary]_vars

\* paths as git reports them: relative, normalised
ScopePaths ==
  { <<"s","r","c","/","a">>, <<"s","r","c","/","b">>, <<"d","o","c","s","/","c">>,
    <<"r","e","a","d","m","e">>, <<"m","i","s","c","/","x">>,
    <<"l","i","b","/","u","/","v">> }

\* a call of _determine_scope(changed_files)
DetermineScope ==
  /\ pc = "scope"
  /\ scope' = _determine_scope(changed_files)
  /\ pc' = "scoped"
  /\ UNCHANGED <<envvars, configured, model, staged_changes, changed_files,
                 changes_text, prompt, response, result, raised, steps>>

InitScope ==
  /\ ScenarioEnv
  /\ pc = "scope"
  /\ changed_files \in UNION {[1..k -> ScopePaths] : k \in 0..MaxPaths}
  /\ staged_changes = <<>>
  /\ changes_text = <<>>
  /\ prompt = <<>>
  /\ response = NoResponse
  /\ result = <<>>
  /\ steps = <<>>

NextScope == DetermineScope

SpecScope == InitScope /\ [][NextScope]_vars

(***************************************************************************)
(* Notions the properties are stated in, defined without the operators     *)
(* that model the code                                                     *)
(***************************************************************************)

\* the k-th smallest element of a finite set of integers
Kth(S, k) == CHOOSE x \in S : Cardinality({y \in S : y < x}) = k - 1

\* the positions of the characters of r that are not whitespace
NonSpace(r) == {i \in 1..Len(r) : ~IsSpace(r[i])}

\* r without its leading and trailing whitespace
Trim(r) ==
  IF NonSpace(r) = {} THEN <<>>
  ELSE SubSeq(r, Kth(NonSpace(r), 1), Kth(NonSpace(r), Cardinality(NonSpace(r))))

\* the positions where two consecutive newlines start
Seps(m) == {i \in 1..(Len(m) - 1) : m[i] = NL /\ m[i + 1] = NL}

\* the part before the first blank-line separator, or everything
TitleOf(m) == IF Seps(m) = {} THEN m ELSE SubSeq(m, 1, Kth(Seps(m), 1) - 1)

\* the part after the first blank-line separator
BodyOf(m) == SubSeq(m, Kth(Seps(m), 1) + 2, Len(m))

\* the formatted message the formatter is to produce for raw response r
Formatted(r) ==
  IF Seps(Trim(r)) = {} THEN Trim(r)
  ELSE Trim(TitleOf(Trim(r))) \o <<NL, NL>> \o Trim(BodyOf(Trim(r)))

\* sub occurs in s
Contains(s, sub) ==
  \E i \in 1..(Len(s) - Len(sub) + 1) : SubSeq(s, i, i + Len(sub) - 1) = sub

\* the number of backend invocations of the call so far
BackendCalls == Cardinality({i \in 1..Len(steps) : steps[i] = "backend"})

\* get_staged_changes has returned in this call
Collected == pc \in {"collected", "summarized", "prompted", "responded", "returned"}

PipelineOrder == <<"collect", "summarize", "prompt", "backend", "format">>

(***************************************************************************)
(* C1                                                                      *)
(***************************************************************************)

\* C1: when get_staged_changes has returned an empty mapping, the call
\* returns exactly "No staged changes found" and the generation backend is
\* not invoked during the call.
C1_EmptyGivesSentinel ==
  (Collected /\ staged_changes = <<>>)
    => /\ BackendCalls = 0
       /\ response = NoResponse
       /\ pc \in {"collected", "returned"}
       /\ pc = "returned" => result = NoStagedChanges

C1_Witness ==
  /\ pc = "returned"
  /\ staged_changes = <<>>
  /\ steps = <<"collect">>
  /\ result = NoStagedChanges

(***************************************************************************)
(* C2                                                                      *)
(***************************************************************************)

\* C2: for a non-empty mapping, when the backend call or the reading of the
\* response text fails with description d, the call raises nothing and
\* returns "Error generating commit message: " followed by d.
C2_FailureBecomesText ==
  (response.kind = "fail" \/ (response.kind = "blocked" /\ pc # "responded"))
    => /\ staged_changes # <<>>
       /\ pc = "returned"
       /\ raised = NoError
       /\ result = ErrorPrefix \o response.err

C2_Witness ==
  /\ pc = "returned"
  /\ response.kind = "fail"
  /\ response.err = <<"4","0","4">>
  /\ result = ErrorPrefix \o <<"4","0","4">>

(***************************************************************************)
(* C3                                                                      *)
(***************************************************************************)

\* the returned string is the sentinel, an error description or the
\* formatted answer of the backend
IsPipelineResult ==
  \/ steps = <<"collect">> /\ result = NoStagedChanges
  \/ response.kind \in {"fail", "blocked"} /\ result = ErrorPrefix \o response.err
  \/ response.kind = "text" /\ result = Formatted(response.text)

\* C3 as stated: no call of generate_commit_message on a constructed
\* analyzer raises; every call that ends returns the sentinel, an error
\* description or a message.
C3_NeverRaises ==
  /\ pc # "raised"
  /\ pc = "returned" => IsPipelineResult

\* C3 amended: a call raises only out of its first step, the collection of
\* the diffs (get_staged_changes runs outside the try block); once the
\* diffs are collected nothing is raised, and a call that returns returns
\* the sentinel, an error description or a message.
C3_RaisesOnlyFromCollect ==
  /\ pc = "raised" => (steps = <<"collect">> /\ ~has_head /\ raised.type = "BadName")
  /\ Collected => raised = NoError
  /\ pc = "returned" => IsPipelineResult

C3_Witness ==
  /\ pc = "returned"
  /\ response.kind = "blocked"
  /\ steps = PipelineOrder
  /\ raised = NoError

(***************************************************************************)
(* C4                                                                      *)
(***************************************************************************)

\* C4: when the response text has a character that is not whitespace, the
\* title of the returned message (the part before its first blank-line
\* separator, or all of it) is not empty and neither begins nor ends with
\* whitespace.
C4_TitleNonEmptyTrimmed ==
  (pc = "returned" /\ response.kind = "text" /\ NonSpace(response.text) # {})
    => /\ TitleOf(result) # <<>>
       /\ ~IsSpace(TitleOf(result)[1])
       /\ ~IsSpace(TitleOf(result)[Len(TitleOf(result))])

\* a response whose title part carries whitespace next to the separator
C4_Witness ==
  /\ pc = "returned"
  /\ response.kind = "text"
  /\ Seps(result) # {}
  /\ Len(TitleOf(Trim(response.text))) > Len(TitleOf(result))

(***************************************************************************)
(* C5                                                                      *)
(***************************************************************************)

\* C5: the formatted result of raw response r is trim(r) when trim(r) has
\* no two consecutive newlines, and otherwise trim(A) + "\n\n" + trim(B)
\* for the text A before and the text B after the first such pair.
C5_FormatIsTrimSplitTrim ==
  (pc = "returned" /\ response.kind = "text")
    => result = Formatted(response.text)

\* a later blank-line separator stayed inside the body
C5_Witness ==
  /\ pc = "returned"
  /\ response.kind = "text"
  /\ Seps(result) # {}
  /\ Seps(BodyOf(result)) # {}
  /\ NonSpace(TitleOf(BodyOf(result))) # {}

(***************************************************************************)
(* C6                                                                      *)
(***************************************************************************)

\* the pieces of text between the occurrences of the character c
Breaks(text, c) ==
  {0} \cup {i \in 1..Len(text) : text[i] = c} \cup {Len(text) + 1}

Pieces(text, c) ==
  [k \in 1..(Cardinality(Breaks(text, c)) - 1) |->
     SubSeq(text, Kth(Breaks(text, c), k) + 1, Kth(Breaks(text, c), k + 1) - 1)]

\* the positions of the lines that start with the sign c
SignedAt(ls, c) == {i \in 1..Len(ls) : ls[i] # <<>> /\ ls[i][1] = c}

ChangeAt(ls) == SignedAt(ls, "+") \cup SignedAt(ls, "-")

\* the first k lines that start with a sign, each on a line of its own
RECURSIVE Listed(_, _)
Listed(ls, k) ==
  IF k = 0 THEN <<>>
  ELSE Listed(ls, k - 1) \o <<NL>> \o ls[Kth(ChangeAt(ls), k)]

\* the last segment of a path
LastSegment(path) ==
  LET slashes == {0} \cup {i \in 1..Len(path) : path[i] = "/"}
  IN SubSeq(path, Kth(slashes, Cardinality(slashes)) + 1, Len(path))

\* the digest of one file as the claim describes it
Digest(path, diff) ==
  LET ls      == Pieces(diff, NL)
      added   == Cardinality(SignedAt(ls, "+"))
      removed == Cardinality(SignedAt(ls, "-"))
      n       == Cardinality(ChangeAt(ls))
  IN FilePrefix \o LastSegment(path)
     \o (IF added > 0 \/ removed > 0
         THEN <<" ", "(">> \o str(added) \o AddedLit \o str(removed) \o RemovedLit
         ELSE <<>>)
     \o (IF n > 0
         THEN <<NL,"C","h","a","n","g","e","s",":">>
              \o Listed(ls, IF n < 3 THEN n ELSE 3)
         ELSE <<>>)

\* the digests of the first k files, a blank line between two files
RECURSIVE Digests(_, _)
Digests(changes, k) ==
  IF k = 0 THEN <<>>
  ELSE (IF k = 1 THEN <<>> ELSE Digests(changes, k - 1) \o <<NL, NL>>)
       \o Digest(changes[k][1], changes[k][2])

\* C6: for every file the summary gives "File: <filename>", followed by
\* "(<added> added, <removed> removed)" exactly when a line of the diff
\* starts with '+' or '-', the counts being the numbers of such lines, and
\* under "Changes:" the first min(3, n) of the n lines that start with '+'
\* or '-', in diff order; no "Changes:" label when n = 0.
C6_SummaryCountsAndSamples ==
  pc = "summarized"
    => changes_text = Digests(staged_changes, Len(staged_changes))

\* more than three changed lines, and a context line before the third
C6_Witness ==
  /\ pc = "summarized"
  /\ Cardinality(ChangeAt(Pieces(staged_changes[1][2], NL))) > 3
  /\ Kth(ChangeAt(Pieces(staged_changes[1][2], NL)), 3) > 3
  /\ Contains(changes_text, <<"C","h","a","n","g","e","s",":">>)

(***************************************************************************)
(* C7                                                                      *)
(***************************************************************************)

\* the label of a path: its first segment when it has several, else "misc"
LabelOf(path) ==
  IF Len(Pieces(path, "/")) > 1 THEN Pieces(path, "/")[1] ELSE Misc

\* how many of the files carry the label of file i
FreqOf(files, i) ==
  Cardinality({j \in 1..Len(files) : LabelOf(files[j]) = LabelOf(files[i])})

\* C7: _determine_scope gives "misc" for no paths; otherwise the label of
\* highest frequency, and among the labels of highest frequency the one
\* that occurs first in the input.
C7_ScopeIsFirstMostFrequent ==
  pc = "scoped"
    => IF changed_files = <<>> THEN scope = Misc
       ELSE \E i \in 1..Len(changed_files) :
              /\ scope = LabelOf(changed_files[i])
              /\ \A j \in 1..Len(changed_files) :
                   FreqOf(changed_files, j) <= FreqOf(changed_files, i)
              /\ \A j \in 1..(i - 1) :
                   FreqOf(changed_files, j) < FreqOf(changed_files, i)

\* two different labels share the highest frequency
C7_Witness ==
  /\ pc = "scoped"
  /\ \E i, j \in 1..Len(changed_files) :
       /\ i < j
       /\ LabelOf(changed_files[i]) # LabelOf(changed_files[j])
       /\ FreqOf(changed_files, i) = FreqOf(changed_files, j)
       /\ \A k \in 1..Len(changed_files) :
            FreqOf(changed_files, k) <= FreqOf(changed_files, i)
       /\ scope = LabelOf(changed_files[i])

(***************************************************************************)
(* C8                                                                      *)
(***************************************************************************)

\* no file of the repository has staged changes
NothingStaged == \A i \in 1..Len(TrackedFiles) : status[i] \in {"clean", "unstaged"}

\* C8: in a repository where no file has staged changes, whatever the
\* unstaged modifications of the working tree, get_staged_changes returns
\* an empty mapping and the call ends with "No staged changes found".
C8_NothingStagedGivesEmpty ==
  (Collected /\ NothingStaged)
    => /\ staged_changes = <<>>
       /\ pc = "returned" => result = NoStagedChanges

(***************************************************************************)
(* C9                                                                      *)
(***************************************************************************)

\* __init__ has ended
Constructed == pc # "new"

Unrecognized == ~Recognized(model_name, backend_models)

\* C9 as stated, for a repository that opens and a listing call that
\* answers: construction with a model name the backend does not recognize
\* fails with an error whose text names the rejected model and at least
\* one model name of the backend's listing.
C9_ErrorNamesAnAvailableModel ==
  (Constructed /\ Unrecognized /\ repo_ok /\ list_ok)
    => /\ pc = "init_failed"
       /\ Contains(raised.text, model_name)
       /\ \E i \in 1..Len(backend_models) : Contains(raised.text, backend_models[i])

\* C9 amended: construction with a model name the backend does not
\* recognize never yields an analyzer; when the repository opens and the
\* listing call answers, it fails with a ValueError whose text names the
\* rejected model and every model name of the listing (none when the
\* listing is empty); otherwise the failure of the repository or of the
\* listing call is raised.
C9_ErrorNamesEveryListedModel ==
  (Constructed /\ Unrecognized)
    => /\ pc = "init_failed"
       /\ model = <<>>
       /\ raised # NoError
       /\ (repo_ok /\ list_ok)
            => /\ raised.type = "ValueError"
               /\ Contains(raised.text, model_name)
               /\ \A i \in 1..Len(backend_models) :
                    Contains(raised.text, backend_models[i])
       /\ ~repo_ok => raised.type = "InvalidGitRepositoryError"
       /\ (repo_ok /\ ~list_ok) => raised.type = "ListModelsError"

C9_Witness ==
  /\ pc = "init_failed"
  /\ Unrecognized
  /\ raised.type = "ValueError"
  /\ Len(backend_models) = 2
  /\ Contains(raised.text, backend_models[2])

(***************************************************************************)
(* C10                                                                     *)
(***************************************************************************)

\* C10: the steps of one call occur in the order collect, summarize, build
\* prompt, backend call, format; the backend is invoked at most once, never
\* again after a failure or a response, and only after the diffs have been
\* collected and summarized.
C10_StepsInOrderOneBackendCall ==
  /\ \E k \in 0..Len(PipelineOrder) : steps = SubSeq(PipelineOrder, 1, k)
  /\ BackendCalls <= 1
  /\ BackendCalls = 1
       => /\ changes_text = _prepare_diff_summary(staged_changes)
          /\ prompt = build_prompt(changes_text)
          /\ response # NoResponse

C10_Witness ==
  /\ pc = "returned"
  /\ steps = PipelineOrder
  /\ response.kind = "text"
  /\ BackendCalls = 1

====
